---- MODULE Spec2Model ----
(***************************************************************************)
(* Incite: the change-tracking store (PostgresDatastore, table             *)
(* java_methods) and the two consumers that progress over it, the          *)
(* enrichment pass (AIEnricher) and the vectorization pass                 *)
(* (VectorSyncWorker), together with rescans that upsert extracted methods.*)
(*                                                                         *)
(* Further specifications follow one scan of run_extraction_pipeline       *)
(* (SpecScan), the directory walk and identity assignment of JavaExtractor *)
(* (SpecExtract), the brace balancing of _get_method_body (SpecBody), the  *)
(* enrichment threads on their shared connection (SpecConn), one           *)
(* enrichment batch with costs (SpecEnrich) and the vector-sync marks with *)
(* usage (SpecUsage).                                                      *)
(*                                                                         *)
(* The table is a set of rows; the primary key is not built into the       *)
(* representation, it is what ON CONFLICT (id) keeps.  Strings the code    *)
(* matches with LIKE are sequences of one-character strings.               *)
(***************************************************************************)
EXTENDS Integers, Sequences, FiniteSets, TLC

VARIABLES
    table,      \* java_methods: the set of rows
    now,        \* the wall clock read by datetime.now()
    last,       \* the last direct store call and what it returned / replaced
    everProc,   \* ids whose current row has had status ai_processed
    changed,    \* ids whose hash an upsert changed since the last enrichment mark
    eRows,      \* AIEnricher: rows fetched by process_batches, not yet processed
    eOk,        \* ids of the current enrichment batch whose unit wrote its result
    eBad,       \* ids of the current enrichment batch whose unit failed
    vPc,        \* VectorSyncWorker.sync: "idle", "embed", "index", "mark"
    vRows,      \* rows fetched by sync, not yet embedded
    vUsage,     \* usage_tracking / vectors_to_upsert: rows embedded in this pass
    vFailed,    \* failed_ids of _sync_rows
    vIndexed,   \* ids of the vectors the index accepted in this pass
    scan,       \* run_extraction_pipeline: one scan's progress
    ext,        \* JavaExtractor: one directory walk's progress
    bal,        \* JavaExtractor._get_method_body: one call's progress
    conn,       \* the psycopg2 connection the enrichment pool threads share
    usage,      \* per id, the tokens and costs the vector-sync marks were given
    deps,       \* JavaExtractor._analyze_dependencies: one call and its lists
    drv         \* the __main__ loops of AIEnricher and VectorSyncWorker

vars == <<table, now, last, everProc, changed, eRows, eOk, eBad,
          vPc, vRows, vUsage, vFailed, vIndexed, scan, ext, bal, conn, usage,
          deps, drv>>

---------------------------------------------------------------------------
(* Bounds *)

MaxTime == 2
MaxLimit == 2

\* The identities (md5 of the final signature) the scans of this model find.
Ids == {1, 2}
Times == 0..MaxTime
Limits == 1..MaxLimit

---------------------------------------------------------------------------
(* The extractor's output: what a scan hands to upsert_methods *)

\* Method bodies a scan can find at one identity.
Codes == {"g", "h"}

\* len(body) of _get_method_body for each body.
LineCountOf(code) == IF code = "g" THEN 1 ELSE 3

\* any(keyword in clean_code for keyword in logic_keywords)
HasLogic(code) == code = "h"

\* hashlib.md5(method_code.encode()).hexdigest(): one digest per body.
Md5(code) == IF code = "g" THEN "d41" ELSE "9e1"

\* ctx['rel_path'] of the file an identity was extracted from.
\* (os.path.relpath joins with os.sep: id 2 is file b in directory a on a
\* platform whose separator is the backslash)
SourceOf(id) == IF id = 1 THEN <<"a", "_">> ELSE <<"a", "\\", "b">>

\* node.name of the declaration behind an identity.
NameOf(id) == IF id = 1 THEN "getX" ELSE "run"

\* One dict of extracted_methods.
Method(id, code) ==
    [id |-> id, source |-> SourceOf(id), method_name |-> NameOf(id),
     method_code |-> code, content_hash |-> Md5(code),
     line_count |-> LineCountOf(code)]

Methods == {Method(id, code) : id \in Ids, code \in Codes}

\* The batches a scan passes: a non-empty list of methods, identities distinct.
Batches ==
    {b \in SUBSET Methods :
        /\ b # {}
        /\ \A m1, m2 \in b : m1.id = m2.id => m1 = m2}

---------------------------------------------------------------------------
(* Rows *)

NoMeta == [present |-> FALSE, is_getter_setter |-> FALSE]

RowsOf(tbl, id) == {r \in tbl : r.id = id}
HasRow(tbl, id) == RowsOf(tbl, id) # {}
RowOf(tbl, id) == CHOOSE r \in tbl : r.id = id
IdsOf(tbl) == {r.id : r \in tbl}

---------------------------------------------------------------------------
(* PostgresDatastore: each statement as a function of the table *)

\* The VALUES tuple of upsert_methods as the row INSERT adds; the columns the
\* statement does not name take their defaults.
NewRow(m, t) ==
    [id |-> m.id, source_path |-> m.source, method_name |-> m.method_name,
     method_code |-> m.method_code, content_hash |-> m.content_hash,
     line_count |-> m.line_count,
     status |-> "new", vector_status |-> "pending", last_seen_at |-> t,
     ai_summary |-> "null", metadata_json |-> NoMeta,
     summary_tokens |-> 0, vector_tokens |-> 0, total_cost |-> 0]

\* ON CONFLICT (id) DO UPDATE SET ...: r is java_methods, m is EXCLUDED.
\* Variants of the conflict clause with one CASE gone wrong.
OnConflictAlwaysNew(r, m, t) ==
    [r EXCEPT !.status = "new", !.vector_status = "pending",
              !.method_code = m.method_code, !.content_hash = m.content_hash,
              !.line_count = m.line_count, !.last_seen_at = t]

OnConflictKeepVector(r, m, t) ==
    [r EXCEPT
        !.status = IF r.content_hash # m.content_hash THEN "updated" ELSE r.status,
        !.method_code = m.method_code, !.content_hash = m.content_hash,
        !.line_count = m.line_count, !.last_seen_at = t]

OnConflictAlwaysUpdated(r, m, t) ==
    [r EXCEPT !.status = "updated", !.vector_status = "pending",
              !.method_code = m.method_code, !.content_hash = m.content_hash,
              !.line_count = m.line_count, !.last_seen_at = t]

OnConflictClearsPayload(r, m, t) ==
    [r EXCEPT
        !.status = IF r.content_hash # m.content_hash THEN "updated" ELSE r.status,
        !.vector_status =
            IF r.content_hash # m.content_hash THEN "pending" ELSE r.vector_status,
        !.ai_summary = IF r.content_hash # m.content_hash THEN "null" ELSE @,
        !.total_cost = IF r.content_hash # m.content_hash THEN 0 ELSE @,
        !.method_code = m.method_code, !.content_hash = m.content_hash,
        !.line_count = m.line_count, !.last_seen_at = t]

OnConflict(r, m, t) ==
    [r EXCEPT
        !.status = IF r.content_hash # m.content_hash THEN "updated" ELSE r.status,
        !.vector_status =
            IF r.content_hash # m.content_hash THEN "pending" ELSE r.vector_status,
        !.method_code = m.method_code,
        !.content_hash = m.content_hash,
        !.line_count = m.line_count,
        !.last_seen_at = t]

\* upsert_methods(methods) at clock t.
UpsertInsertOnly(tbl, methods, t) == tbl \cup {NewRow(m, t) : m \in methods}

UpsertMethods(tbl, methods, t) ==
    {IF \E m \in methods : m.id = r.id
       THEN OnConflict(r, CHOOSE m \in methods : m.id = r.id, t)
       ELSE r : r \in tbl}
    \cup {NewRow(m, t) : m \in {x \in methods : ~HasRow(tbl, x.id)}}

\* update_ai_enrichment(method_id, summary, ..., metadata_dict, tokens, cost)
\* Variant: the enrichment mark also re-arms the vector axis.
UpdateAiEnrichmentRearms(tbl, id, summary, meta, tokens, cost) ==
    {IF r.id = id
       THEN [r EXCEPT !.ai_summary = summary, !.metadata_json = meta,
                      !.summary_tokens = tokens, !.total_cost = @ + cost,
                      !.status = "ai_processed", !.vector_status = "pending"]
       ELSE r : r \in tbl}

UpdateAiEnrichment(tbl, id, summary, meta, tokens, cost) ==
    {IF r.id = id
       THEN [r EXCEPT !.ai_summary = summary, !.metadata_json = meta,
                      !.summary_tokens = tokens, !.total_cost = @ + cost,
                      !.status = "ai_processed"]
       ELSE r : r \in tbl}

\* update_vector_sync_status(method_id, tokens, cost)
UpdateVectorSyncStatus(tbl, id, tokens, cost) ==
    {IF r.id = id
       THEN [r EXCEPT !.vector_status = "synced", !.vector_tokens = tokens,
                      !.total_cost = @ + cost]
       ELSE r : r \in tbl}

\* bulk_update_vector_sync(update_data): update_data is a set of
\* [id, tokens, cost] with distinct ids; an empty one returns at once.
BulkUpdateVectorSync(tbl, data) ==
    {IF \E v \in data : v.id = r.id
       THEN LET v == CHOOSE v \in data : v.id = r.id
            IN [r EXCEPT !.vector_tokens = v.tokens, !.total_cost = @ + v.cost,
                         !.vector_status = "synced"]
       ELSE r : r \in tbl}

\* delete_methods_by_id(method_ids)
DeleteMethodsById(tbl, ids) == {r \in tbl : r.id \notin ids}

Min(a, b) == IF a <= b THEN a ELSE b

\* WHERE status IN ('new', 'updated')
NeedsAnalysisAny(r) == TRUE

NeedsAnalysis(r) == r.status \in {"new", "updated"}

\* ORDER BY line_count DESC: the orders the sort can leave the rows in.
SortedByLineCountDesc(rows) ==
    {s \in [1..Cardinality(rows) -> rows] :
        /\ \A i, j \in DOMAIN s : i # j => s[i] # s[j]
        /\ \A i, j \in DOMAIN s : i < j => s[i].line_count >= s[j].line_count}

\* The columns get_methods_to_analyze selects.
AnalyzeColumns(r) ==
    [id |-> r.id, method_name |-> r.method_name, method_code |-> r.method_code]

\* get_methods_to_analyze(limit): every list the query can return.
GetMethodsToAnalyze(tbl, limit) ==
    {[i \in 1..Min(limit, Len(s)) |-> AnalyzeColumns(s[i])] :
        s \in SortedByLineCountDesc({r \in tbl : NeedsAnalysis(r)})}

\* WHERE vector_status = 'pending' AND status = 'ai_processed'
\*   AND NOT (metadata_json @> '{"is_getter_setter": true}')
\* (a NULL metadata_json makes the last conjunct NULL, and the row is left out)
NeedsVectorPendingOnly(r) == r.vector_status = "pending"

NeedsVector(r) ==
    /\ r.vector_status = "pending"
    /\ r.status = "ai_processed"
    /\ r.metadata_json.present
    /\ ~r.metadata_json.is_getter_setter

\* The columns get_methods_to_vectorize selects.
VectorizeColumns(r) ==
    [id |-> r.id, method_name |-> r.method_name, ai_summary |-> r.ai_summary]

\* get_methods_to_vectorize(limit): every result the query can return (no
\* ORDER BY: any limit of the matching rows).
GetMethodsToVectorize(tbl, limit) ==
    LET match == {r \in tbl : NeedsVector(r)}
    IN {{VectorizeColumns(r) : r \in S} :
            S \in {X \in SUBSET match : Cardinality(X) = Min(limit, Cardinality(match))}}

\* s LIKE p, with the default escape character: % any run, _ any one character.
RECURSIVE Like(_, _)
Like(s, p) ==
    IF p = <<>> THEN s = <<>>
    ELSE IF Head(p) = "%"
      THEN Like(s, Tail(p)) \/ (s # <<>> /\ Like(Tail(s), p))
    ELSE IF Head(p) = "_"
      THEN s # <<>> /\ Like(Tail(s), Tail(p))
    ELSE IF Head(p) = "\\" /\ Len(p) > 1
      THEN s # <<>> /\ Head(s) = p[2] /\ Like(Tail(s), Tail(Tail(p)))
    ELSE s # <<>> /\ Head(s) = Head(p) /\ Like(Tail(s), Tail(p))

\* get_stale_methods(repo_path_prefix, scan_start_time)
GetStaleMethods(tbl, prefix, t) ==
    {r.id : r \in {x \in tbl : Like(x.source_path, prefix \o <<"%">>)
                                /\ x.last_seen_at < t}}

---------------------------------------------------------------------------
(* AIEnricher and VectorSyncWorker helpers *)

\* re.match(r'^(get|set|is)[A-Z]', method_name)
IsStandardName(name) == name = "getX"

\* AIEnricher.is_getter_setter(method_name, code)
IsGetterSetter(name, code) ==
    IsStandardName(name) /\ LineCountOf(code) <= 4 /\ ~HasLogic(code)

\* analysis['summary'], by the body it was computed from.
SummaryOf(code) == IF code = "g" THEN "sum_g" ELSE "sum_h"

\* The meta dict _process_method builds for a fetched row.
MetaOf(name, code) ==
    [present |-> TRUE, is_getter_setter |-> IsGetterSetter(name, code)]

\* usage_data of _process_single_row: (m_id, tokens, (tokens / 1000) * 0.00002),
\* the cost in units of 0.00000002.
UsageData(id, tokens) == [id |-> id, tokens |-> tokens, cost |-> tokens]

---------------------------------------------------------------------------
(* State *)

NoCall == [op |-> "none", ids |-> {}, prior |-> {}, methods |-> {},
           rows |-> <<>>, prefix |-> <<>>, t |-> 0, limit |-> 0]

\* Nothing in progress in the scan, the walk, the body scan, the connection.
NoScan == [pc |-> "idle", t |-> 0, all |-> <<>>, i |-> 0, seen |-> {},
           before |-> {}, failed |-> {}]
NoWalk == [pc |-> "idle", exists |-> TRUE, files |-> <<>>, i |-> 1,
           all_methods |-> <<>>]
NoBody == [pc |-> "idle", lines |-> <<>>, start_line |-> 0, i |-> 0,
           body |-> <<>>, brace_count |-> 0, started |-> FALSE,
           text |-> <<>>, line_count |-> 0]
NoDeps == [pc |-> "idle", package_name |-> <<>>, all_imports |-> <<>>,
           internal |-> <<>>, external |-> <<>>,
           internal_deps |-> <<>>, external_libs |-> <<>>]
\* Neither loop has been started; failing is the set of records whose analysis
\* call fails whenever it is made.
NoDrive == [enrich |-> "off", en |-> 0, sync |-> "off", sn |-> 0, failing |-> {}]
NoUsage == [id \in Ids |-> [tokens |-> 0, cost |-> 0]]
NoConn == [open |-> FALSE, view |-> {}, calls |-> {}, pc |-> <<>>, base |-> {}]

Init ==
    /\ table = {}
    /\ now = 0
    /\ last = NoCall
    /\ everProc = {}
    /\ changed = {}
    /\ eRows = {}
    /\ vPc = "idle"
    /\ vRows = {}
    /\ vUsage = {}
    /\ eOk = {}
    /\ eBad = {}
    /\ vFailed = {}
    /\ vIndexed = {}
    /\ scan = NoScan
    /\ ext = NoWalk
    /\ bal = NoBody
    /\ conn = NoConn
    /\ usage = NoUsage
    /\ deps = NoDeps
    /\ drv = NoDrive

enricherVars == <<eRows, eOk, eBad>>
workerVars == <<vPc, vRows, vUsage, vFailed, vIndexed>>
auxVars == <<scan, ext, bal, conn, usage, deps, drv>>

\* The rows of tbl with an id in ids.
Prior(tbl, ids) == {r \in tbl : r.id \in ids}

\* The ids of a batch whose stored content_hash differs from the incoming one.
HashChanged(tbl, methods) ==
    {m.id : m \in {x \in methods :
        \E r \in tbl : r.id = x.id /\ r.content_hash # x.content_hash}}

---------------------------------------------------------------------------
(* Store calls: effect on the table and on the history of each record *)

\* db.upsert_methods(batch)
Upsert(methods) ==
    /\ table' = UpsertMethods(table, methods, now)
    /\ changed' = changed \cup HashChanged(table, methods)
    /\ UNCHANGED <<now, everProc>>

\* db.update_ai_enrichment(...)
MarkEnriched(id, summary, meta, tokens, cost) ==
    /\ table' = UpdateAiEnrichment(table, id, summary, meta, tokens, cost)
    /\ everProc' = IF HasRow(table, id) THEN everProc \cup {id} ELSE everProc
    /\ changed' = changed \ {id}
    /\ UNCHANGED now

\* db.update_vector_sync_status(...)
MarkSynced(id, tokens, cost) ==
    /\ table' = UpdateVectorSyncStatus(table, id, tokens, cost)
    /\ UNCHANGED <<now, everProc, changed>>

\* db.bulk_update_vector_sync(update_data); failed: the statement raised and
\* the transaction was rolled back.
BulkMarkSynced(data, failed) ==
    /\ table' = IF failed \/ data = {} THEN table ELSE BulkUpdateVectorSync(table, data)
    /\ UNCHANGED <<now, everProc, changed>>

\* db.delete_methods_by_id(method_ids)
Delete(ids) ==
    /\ table' = DeleteMethodsById(table, ids)
    /\ everProc' = everProc \ ids
    /\ changed' = changed \ ids
    /\ UNCHANGED now

---------------------------------------------------------------------------
(* The pipelines *)

\* run_extraction_pipeline: one batch of a scan reaches the store.
ScanUpsert(methods) ==
    /\ Upsert(methods)
    /\ UNCHANGED <<last, enricherVars, workerVars>>
    /\ UNCHANGED auxVars

\* AIEnricher.process_batches(batch_size): fetch; an empty result returns 0.
ProcessBatches(limit) ==
    /\ eRows = {}
    /\ \E res \in GetMethodsToAnalyze(table, limit) :
          eRows' = {res[i] : i \in DOMAIN res}
    /\ eOk' = {}
    /\ eBad' = {}
    /\ UNCHANGED <<table, now, last, everProc, changed, workerVars>>
    /\ UNCHANGED auxVars

\* Variant: a unit that raised cancels the futures not yet drained.
RemainingCancelled(rows, row, raised) == IF raised THEN {} ELSE rows \ {row}

\* _process_list: the futures still to be drained once the unit of row is
\* over; an exception of a unit is caught and logged.
Remaining(rows, row, raised) == rows \ {row}

\* AIEnricher._process_method(row) in a pool thread.  ok: get_analysis returned
\* a result (None makes analysis['summary'] raise, which is caught and logged).
ProcessMethod(row, ok, tokens, cost) ==
    /\ row \in eRows
    /\ eRows' = Remaining(eRows, row,
                          ~(ok \/ IsGetterSetter(row.method_name, row.method_code)))
    /\ LET local == IsGetterSetter(row.method_name, row.method_code)
       IN IF local \/ ok
            THEN /\ MarkEnriched(row.id, SummaryOf(row.method_code),
                                 MetaOf(row.method_name, row.method_code),
                                 IF local THEN 0 ELSE tokens,
                                 IF local THEN 0 ELSE cost)
                 /\ eOk' = eOk \cup {row.id}
                 /\ eBad' = eBad
            ELSE /\ UNCHANGED <<table, now, everProc, changed>>
                 /\ eOk' = eOk
                 /\ eBad' = eBad \cup {row.id}
    /\ UNCHANGED <<last, workerVars>>
    /\ UNCHANGED auxVars

\* VectorSyncWorker.sync(batch_size): fetch; an empty result returns 0.
Sync(limit) ==
    /\ vPc = "idle"
    /\ \E rows \in GetMethodsToVectorize(table, limit) :
          /\ vRows' = rows
          /\ vPc' = IF rows = {} THEN "idle" ELSE "embed"
    /\ vUsage' = {}
    /\ vFailed' = {}
    /\ vIndexed' = {}
    /\ UNCHANGED <<table, now, last, everProc, changed, enricherVars>>
    /\ UNCHANGED auxVars

\* VectorSyncWorker._process_single_row(row) in a pool thread, collected by
\* _sync_rows.  ok: get_vector_with_usage returned.
ProcessSingleRow(row, ok, tokens) ==
    /\ vPc = "embed"
    /\ row \in vRows
    /\ vRows' = vRows \ {row}
    /\ vUsage' = IF ok THEN vUsage \cup {UsageData(row.id, tokens)} ELSE vUsage
    /\ vFailed' = IF ok THEN vFailed ELSE vFailed \cup {row.id}
    /\ vPc' = IF vRows' # {} THEN "embed"
              ELSE IF vUsage' # {} THEN "index" ELSE "idle"
    /\ UNCHANGED <<table, now, last, everProc, changed, enricherVars, vIndexed>>
    /\ UNCHANGED auxVars

\* Variant: the result of upsert_vectors is ignored.
AfterIndexAlwaysMarks(ok) == "mark"

\* sync: `if self.pinecone.upsert_vectors(vectors_to_upsert):` leads to the
\* mark, anything else to the return.
AfterIndex(ok) == IF ok THEN "mark" ELSE "idle"

\* sync: self.pinecone.upsert_vectors(vectors_to_upsert) returned ok.
UpsertVectors(ok) ==
    /\ vPc = "index"
    /\ vPc' = AfterIndex(ok)
    /\ vUsage' = IF vPc' = "mark" THEN vUsage ELSE {}
    /\ vIndexed' = IF ok THEN {v.id : v \in vUsage} ELSE {}
    /\ UNCHANGED <<table, now, last, everProc, changed, enricherVars, vRows, vFailed>>
    /\ UNCHANGED auxVars

\* sync: self.db.bulk_update_vector_sync(usage_tracking), then return.
SyncMark(failed) ==
    /\ vPc = "mark"
    /\ BulkMarkSynced(vUsage, failed)
    /\ vPc' = "idle"
    /\ vUsage' = {}
    /\ UNCHANGED <<last, enricherVars, vRows, vFailed, vIndexed>>
    /\ UNCHANGED auxVars

Next ==
    \/ \E b \in Batches : ScanUpsert(b)
    \/ \E limit \in Limits : ProcessBatches(limit)
    \/ \E row \in eRows, ok \in BOOLEAN : ProcessMethod(row, ok, 0, 0)
    \/ \E limit \in Limits : Sync(limit)
    \/ \E row \in vRows, ok \in BOOLEAN : ProcessSingleRow(row, ok, 0)
    \/ \E ok \in BOOLEAN : UpsertVectors(ok)
    \/ \E failed \in BOOLEAN : SyncMark(failed)

Spec == Init /\ [][Next]_vars

---------------------------------------------------------------------------
(* The store's public operations called one after another; last records the
   call, the rows it replaced and what it returned *)

\* repo_path_prefix values tried against the stored source paths.
Prefixes == {<<>>, <<"a">>, <<"b">>, <<"a", "_">>, <<"a", "\\">>, <<"_">>}

BatchIds(methods) == {m.id : m \in methods}

StoreUpsert(methods) ==
    /\ Upsert(methods)
    /\ last' = [NoCall EXCEPT !.op = "upsert", !.methods = methods,
                              !.ids = BatchIds(methods),
                              !.prior = Prior(table, BatchIds(methods)), !.t = now]
    /\ UNCHANGED <<enricherVars, workerVars, auxVars>>

\* update_ai_enrichment with the analysis of body `code`.
StoreEnrich(id, code) ==
    /\ MarkEnriched(id, SummaryOf(code), MetaOf(NameOf(id), code), 0, 0)
    /\ last' = [NoCall EXCEPT !.op = "enrich", !.ids = {id},
                              !.prior = Prior(table, {id})]
    /\ UNCHANGED <<enricherVars, workerVars, auxVars>>

StoreSynced(id) ==
    /\ MarkSynced(id, 0, 0)
    /\ last' = [NoCall EXCEPT !.op = "synced", !.ids = {id},
                              !.prior = Prior(table, {id})]
    /\ UNCHANGED <<enricherVars, workerVars, auxVars>>

StoreBulkSynced(ids, failed) ==
    /\ BulkMarkSynced({UsageData(id, 0) : id \in ids}, failed)
    /\ last' = [NoCall EXCEPT !.op = "bulk_synced", !.ids = ids,
                              !.prior = Prior(table, ids)]
    /\ UNCHANGED <<enricherVars, workerVars, auxVars>>

StoreDelete(ids) ==
    /\ Delete(ids)
    /\ last' = [NoCall EXCEPT !.op = "delete", !.ids = ids,
                              !.prior = Prior(table, ids)]
    /\ UNCHANGED <<enricherVars, workerVars, auxVars>>

StoreAnalyze(limit) ==
    /\ \E res \in GetMethodsToAnalyze(table, limit) :
          last' = [NoCall EXCEPT !.op = "analyze", !.limit = limit, !.rows = res,
                                 !.ids = {res[i].id : i \in DOMAIN res}]
    /\ UNCHANGED <<table, now, everProc, changed, enricherVars, workerVars, auxVars>>

StoreVectorize(limit) ==
    /\ \E res \in GetMethodsToVectorize(table, limit) :
          last' = [NoCall EXCEPT !.op = "vectorize", !.limit = limit,
                                 !.ids = {r.id : r \in res}]
    /\ UNCHANGED <<table, now, everProc, changed, enricherVars, workerVars, auxVars>>

StoreStale(prefix, t) ==
    /\ last' = [NoCall EXCEPT !.op = "stale", !.prefix = prefix, !.t = t,
                              !.ids = GetStaleMethods(table, prefix, t)]
    /\ UNCHANGED <<table, now, everProc, changed, enricherVars, workerVars, auxVars>>

\* Time passes between two calls.
Tick ==
    /\ now < MaxTime
    /\ now' = now + 1
    /\ UNCHANGED <<table, last, everProc, changed, enricherVars, workerVars, auxVars>>

NextStore ==
    \/ \E b \in Batches : StoreUpsert(b)
    \/ \E id \in Ids, code \in Codes : StoreEnrich(id, code)
    \/ \E id \in Ids : StoreSynced(id)
    \/ \E ids \in SUBSET Ids, failed \in BOOLEAN : StoreBulkSynced(ids, failed)
    \/ \E ids \in SUBSET Ids : StoreDelete(ids)
    \/ \E limit \in Limits : StoreAnalyze(limit)
    \/ \E limit \in Limits : StoreVectorize(limit)

SpecStore == Init /\ [][NextStore]_vars

\* Scans, sweeps and the staleness query as the clock advances.
NextStale ==
    \/ \E b \in Batches : StoreUpsert(b)
    \/ \E ids \in SUBSET Ids : StoreDelete(ids)
    \/ \E prefix \in Prefixes, t \in Times : StoreStale(prefix, t)
    \/ Tick

SpecStale == Init /\ [][NextStale]_vars

---------------------------------------------------------------------------
(* Claims *)

StatusOf(tbl) ==
    {[id |-> r.id, status |-> r.status, vector_status |-> r.vector_status,
      content_hash |-> r.content_hash] : r \in tbl}

\* C1: an upsert whose incoming content_hash differs from the stored one
\* leaves the record with status 'updated' and vector_status 'pending',
\* whatever the two were before.
C1_ChangedHashRearms ==
    last.op = "upsert" =>
        \A m \in last.methods, p \in last.prior :
            (p.id = m.id /\ p.content_hash # m.content_hash) =>
                /\ HasRow(table, m.id)
                /\ \A r \in RowsOf(table, m.id) :
                      r.status = "updated" /\ r.vector_status = "pending"

C1_Witness ==
    /\ last.op = "upsert"
    /\ \E m \in last.methods, p \in last.prior :
          /\ p.id = m.id
          /\ p.content_hash # m.content_hash
          /\ p.status = "ai_processed"
          /\ p.vector_status = "synced"
          /\ RowOf(table, m.id).status = "updated"
          /\ RowOf(table, m.id).vector_status = "pending"

\* C2: an upsert whose incoming content_hash equals the stored one leaves
\* status and vector_status as they were, and upserting a batch a second time
\* leaves status, vector_status and content_hash as the first upsert left them.
C2_UnchangedHashIdempotent ==
    /\ last.op = "upsert" =>
          \A m \in last.methods, p \in last.prior :
              (p.id = m.id /\ p.content_hash = m.content_hash) =>
                  \A r \in RowsOf(table, m.id) :
                      r.status = p.status /\ r.vector_status = p.vector_status
    /\ \A b \in Batches, t1 \in Times, t2 \in Times :
          StatusOf(UpsertMethods(UpsertMethods(table, b, t1), b, t2))
            = StatusOf(UpsertMethods(table, b, t1))

C2_Witness ==
    /\ last.op = "upsert"
    /\ \E m \in last.methods, p \in last.prior :
          /\ p.id = m.id
          /\ p.content_hash = m.content_hash
          /\ p.status = "ai_processed"
          /\ p.vector_status = "synced"
          /\ RowOf(table, m.id).status = "ai_processed"
          /\ RowOf(table, m.id).vector_status = "synced"

\* C3: the store holds at most one record per identity, and an upsert of an
\* identity that already has a row adds no row for it.
C3_OneRowPerIdentity ==
    /\ \A r1, r2 \in table : r1.id = r2.id => r1 = r2
    /\ last.op = "upsert" =>
          \A p \in last.prior : Cardinality(RowsOf(table, p.id)) = 1

C3_Witness ==
    /\ last.op = "upsert"
    /\ \E p \in last.prior : \E r \in table : r.id = p.id /\ r # p
    /\ Cardinality(table) = 2

\* C4: no record has vector_status 'synced' while its status is 'new' or
\* 'updated', under every interleaving of rescans with a vectorization pass.
C4_SyncedImpliesReconciled ==
    \A r \in table :
        r.vector_status = "synced" => r.status \notin {"new", "updated"}

\* C5: a record with status 'ai_processed' carries the enrichment payload
\* computed from the method code it currently stores, under every
\* interleaving of rescans with an enrichment pass.
C5_ProcessedPayloadIsCurrent ==
    \A r \in table :
        r.status = "ai_processed" =>
            /\ r.ai_summary = SummaryOf(r.method_code)
            /\ r.metadata_json = MetaOf(r.method_name, r.method_code)

\* C6: a record with vector_status 'synced' has had status 'ai_processed';
\* a record can be 'ai_processed' without being 'synced'.
C6_SyncedWasProcessed ==
    \A r \in table : r.vector_status = "synced" => r.id \in everProc

C6_Witness ==
    /\ \E r \in table : r.vector_status = "synced" /\ r.status = "ai_processed"
    /\ \E r \in table : r.status = "ai_processed" /\ r.vector_status = "pending"

\* C7: the upsert that first inserts an identity leaves it 'new' and
\* 'pending'; an upsert of an existing record never turns a status other than
\* 'new' into 'new', and a re-ingest of an 'updated', 'pending' record with
\* its stored hash leaves it 'updated' and 'pending'.
C7_NewOnlyOnInsert ==
    last.op = "upsert" =>
        \A m \in last.methods :
            /\ (\A p \in last.prior : p.id # m.id) =>
                  /\ HasRow(table, m.id)
                  /\ \A r \in RowsOf(table, m.id) :
                        r.status = "new" /\ r.vector_status = "pending"
            /\ \A p \in last.prior :
                  (p.id = m.id /\ p.status # "new") =>
                      \A r \in RowsOf(table, m.id) : r.status # "new"
            /\ \A p \in last.prior :
                  (/\ p.id = m.id
                   /\ p.status = "updated"
                   /\ p.vector_status = "pending"
                   /\ p.content_hash = m.content_hash) =>
                      \A r \in RowsOf(table, m.id) :
                          r.status = "updated" /\ r.vector_status = "pending"

C7_Witness ==
    /\ last.op = "upsert"
    /\ \E m \in last.methods, p \in last.prior :
          /\ p.id = m.id
          /\ p.status = "updated"
          /\ p.content_hash = m.content_hash
          /\ RowOf(table, m.id).status = "updated"
    /\ \E m \in last.methods :
          /\ \A p \in last.prior : p.id # m.id
          /\ RowOf(table, m.id).status = "new"

PendingAnalysis == {r \in table : r.status \in {"new", "updated"}}

\* C8: get_methods_to_analyze(limit) returns only records with status 'new'
\* or 'updated', min(limit, number of them) distinct ones, none smaller in
\* line count than a pending record it left out; a record that has been
\* 'ai_processed' is among them only if an upsert changed its content_hash
\* after it was last marked enriched.
C8_AnalyzeFetch ==
    last.op = "analyze" =>
        /\ \A i \in DOMAIN last.rows :
              \E r \in PendingAnalysis :
                  /\ r.id = last.rows[i].id
                  /\ r.method_code = last.rows[i].method_code
        /\ \A i, j \in DOMAIN last.rows : i # j => last.rows[i].id # last.rows[j].id
        /\ Len(last.rows) = Min(last.limit, Cardinality(PendingAnalysis))
        /\ \A r \in PendingAnalysis, q \in PendingAnalysis :
              (r.id \in last.ids /\ q.id \notin last.ids) =>
                  r.line_count >= q.line_count
        /\ \A id \in last.ids : id \in everProc => id \in changed

C8_Witness ==
    /\ last.op = "analyze"
    /\ Len(last.rows) = 1
    /\ Cardinality(PendingAnalysis) = 2
    /\ \E r \in PendingAnalysis, q \in PendingAnalysis :
          /\ r.id \in last.ids
          /\ q.id \notin last.ids
          /\ r.line_count > q.line_count
          /\ r.id \in everProc
          /\ r.status = "updated"

\* C9: get_methods_to_vectorize(limit) returns at most limit records, each
\* 'pending' and 'ai_processed' and none flagged is_getter_setter, and no
\* record whose enrichment payload is flagged is_getter_setter is 'synced'.
C9_BoilerplateNeverSynced ==
    /\ \A limit \in Limits : \A res \in GetMethodsToVectorize(table, limit) :
          /\ Cardinality(res) <= limit
          /\ \A v \in res : \E r \in table :
                /\ r.id = v.id
                /\ r.vector_status = "pending"
                /\ r.status = "ai_processed"
                /\ ~r.metadata_json.is_getter_setter
    /\ \A r \in table :
          r.metadata_json.is_getter_setter => r.vector_status # "synced"

\* s starts with prefix.
StartsWith(s, prefix) ==
    /\ Len(prefix) <= Len(s)
    /\ \A i \in 1..Len(prefix) : s[i] = prefix[i]

\* C10: get_stale_methods(prefix, t) returns exactly the identities whose
\* source path starts with prefix and whose last_seen_at is before t, and
\* changes no record.
C10_StaleIsExactlyPrefixAndOlder ==
    last.op = "stale" =>
        last.ids = {r.id : r \in {x \in table :
                        StartsWith(x.source_path, last.prefix)
                        /\ x.last_seen_at < last.t}}

---------------------------------------------------------------------------
(* run_extraction_pipeline: a scan as the caller of mark-and-sweep sees it *)

\* BATCH_SIZE (50 in the source), scaled to the identities of this model so
\* that a scan has more than one batch.
BatchSize == 1

\* all_methods of a scan: a list of extracted methods, identities distinct.
ScanLists ==
    {<<>>} \cup {<<m>> : m \in Methods}
           \cup {<<p[1], p[2]>> : p \in {q \in Methods \X Methods : q[1].id # q[2].id}}

\* all_methods[i : i + BATCH_SIZE], i counted from 0.
BatchAt(all, i) ==
    {all[k] : k \in {j \in DOMAIN all : i < j /\ j <= i + BatchSize}}

\* The scan starts: the caller notes the start time T, extraction yields
\* all_methods.  The clock has moved on since the last write of an earlier run.
ScanStart(all) ==
    /\ scan.pc \in {"idle", "done", "aborted"}
    /\ now < MaxTime
    /\ now' = now + 1
    /\ scan' = [pc |-> IF all = <<>> THEN "done" ELSE "run", t |-> now + 1,
                all |-> all, i |-> 0, seen |-> {}, before |-> IdsOf(table),
                failed |-> {}]
    /\ UNCHANGED <<table, last, everProc, changed, enricherVars, workerVars,
                   ext, bal, conn, usage,
                   deps, drv>>

\* One turn of `for i in range(0, total_found, BATCH_SIZE)`.  raised:
\* db.upsert_methods(batch) raised; the except clause of the pipeline logs
\* and the function ends.
ScanBatch(raised) ==
    /\ scan.pc = "run"
    /\ LET batch == BatchAt(scan.all, scan.i)
           more == scan.i + BatchSize < Len(scan.all)
       IN IF raised
            THEN /\ scan' = [scan EXCEPT !.pc = "aborted",
                                         !.failed = @ \cup BatchIds(batch)]
                 /\ UNCHANGED <<table, changed>>
            ELSE /\ table' = UpsertMethods(table, batch, now)
                 /\ changed' = changed \cup HashChanged(table, batch)
                 /\ scan' = [scan EXCEPT !.pc = IF more THEN "run" ELSE "done",
                                         !.i = @ + BatchSize,
                                         !.seen = @ \cup BatchIds(batch)]
    /\ UNCHANGED <<now, last, everProc, enricherVars, workerVars, ext, bal, conn, usage,
                   deps, drv>>

NextScan ==
    \/ \E all \in ScanLists : ScanStart(all)
    \/ \E raised \in BOOLEAN : ScanBatch(raised)
    \/ Tick

SpecScan == Init /\ [][NextScan]_vars

\* The identities the finished scan should leave stale under prefix: rows that
\* were there when it started and that it did not observe.
Unobserved(prefix) ==
    {r.id : r \in {x \in table : /\ StartsWith(x.source_path, prefix)
                                 /\ x.id \in scan.before
                                 /\ x.id \notin scan.seen}}

\* C11: after a scan that started at T has upserted all its batches,
\* get_stale_methods(P, T) holds no identity the scan observed and holds
\* every identity under P that existed before T and was not observed.
C11_SweepSoundAndComplete ==
    (scan.pc = "done" /\ scan.failed = {}) =>
        \A prefix \in Prefixes :
            /\ GetStaleMethods(table, prefix, scan.t) \cap scan.seen = {}
            /\ Unobserved(prefix) \subseteq GetStaleMethods(table, prefix, scan.t)

\* C16: when upsert_methods fails for a batch of a scan, none of that batch's
\* rows are applied and every later batch is still upserted.
C16_FailedBatchDoesNotAbort ==
    scan.pc \in {"done", "aborted"} =>
        /\ \A k \in DOMAIN scan.all :
              scan.all[k].id \notin scan.failed => scan.all[k].id \in scan.seen
        /\ \A r \in table :
              r.id \in scan.failed =>
                  r.id \in scan.before /\ r.last_seen_at < scan.t

---------------------------------------------------------------------------
(* JavaExtractor: the directory walk and the identities of one file *)

\* Most method declarations of one file in this model.
MaxDecls == 3

\* rel_path of a file, one string per character; "." stands for the ending
\* ".java".  A file name may hold '#'.
RelPaths == {<<"A", ".">>, <<"A", "#", "U", ".">>}

\* What tree.filter yields for a declaration: the enclosing path (the text
\* "Unknown" when no class encloses it), node.name, the parameter types.
Decls ==
    {[class_path |-> <<"Unknown">>, name |-> "m", params |-> <<>>],
     [class_path |-> <<"C", "$", "D">>, name |-> "m", params |-> <<"int">>]}

RECURSIVE SeqsUpTo(_, _)
SeqsUpTo(S, n) ==
    IF n = 0 THEN {<<>>}
    ELSE LET shorter == SeqsUpTo(S, n - 1)
         IN shorter \cup {Append(q, x) : q \in {y \in shorter : Len(y) = n - 1},
                                         x \in S}

DeclLists == SeqsUpTo(Decls, MaxDecls)

\* A file of the tree: ok parses; syntax and error are the two except
\* clauses of parse_file; other is not a .java file; module-info is skipped.
FileKinds == {"ok", "syntax", "error", "other", "module-info"}

FilesAt(path) ==
    {[rel_path |-> path, kind |-> "ok", decls |-> d] : d \in DeclLists}
    \cup {[rel_path |-> path, kind |-> k, decls |-> <<>>] :
              k \in FileKinds \ {"ok"}}

\* os.walk: every file once.
Walks ==
    {<<>>} \cup UNION {{<<f>> : f \in FilesAt(path)} : path \in RelPaths}
           \cup UNION {{<<f, g>> : f \in FilesAt(pq[1]), g \in FilesAt(pq[2])} :
                          pq \in {x \in RelPaths \X RelPaths : x[1] # x[2]}}

\* f"{ctx['rel_path']}#{class_path}#{node.name}({params_sig})"
BaseSig(rel_path, d) ==
    rel_path \o <<"#">> \o d.class_path \o <<"#", d.name, "(">> \o d.params
             \o <<")">>

\* final_sig = base_sig; counter = 1; while final_sig in file_id_registry: ...
RECURSIVE Resolve(_, _, _, _)
Resolve(base_sig, final_sig, counter, file_id_registry) ==
    IF final_sig \in file_id_registry
      THEN Resolve(base_sig, base_sig \o <<"#", "sub_", ToString(counter)>>,
                   counter + 1, file_id_registry)
      ELSE final_sig

\* Variants of the registry loop: no retry; the counter started at 0.
FinalSigNoRetry(base_sig, file_id_registry) == base_sig

FinalSigFromZero(base_sig, file_id_registry) ==
    Resolve(base_sig, base_sig, 0, file_id_registry)

FinalSig(base_sig, file_id_registry) ==
    Resolve(base_sig, base_sig, 1, file_id_registry)

\* hashlib.md5(final_sig.encode()).hexdigest(), the digest taken as injective.
MethodId(final_sig) == <<"md5">> \o final_sig

\* The loop of _extract_methods_from_tree from declaration k on.
RECURSIVE ExtractFrom(_, _, _, _)
ExtractFrom(rel_path, decls, k, file_id_registry) ==
    IF k > Len(decls) THEN <<>>
    ELSE LET final_sig == FinalSig(BaseSig(rel_path, decls[k]), file_id_registry)
         IN <<[id |-> MethodId(final_sig), source_path |-> rel_path,
               method_name |-> decls[k].name, final_sig |-> final_sig]>>
            \o ExtractFrom(rel_path, decls, k + 1,
                           file_id_registry \cup {final_sig})

ExtractMethodsFromTree(rel_path, decls) == ExtractFrom(rel_path, decls, 1, {})

\* The test of the walk: file.endswith(".java") and no "module-info.java".
IsJavaSource(file) == file.kind \notin {"other", "module-info"}

\* parse_file: both except clauses return [].
ParseFile(file) ==
    IF file.kind = "ok" THEN ExtractMethodsFromTree(file.rel_path, file.decls)
    ELSE <<>>

\* Variant: the records of a file replace those gathered before.
ExtendOverwrites(all_methods, methods) == methods

\* all_methods.extend(methods)
Extend(all_methods, methods) == all_methods \o methods

\* extract_from_directory(root_dir) begins; a missing root returns [].
ExtractStart(exists, files) ==
    /\ ext.pc = "idle"
    /\ ext' = [pc |-> IF exists /\ files # <<>> THEN "walk" ELSE "done",
               exists |-> exists, files |-> IF exists THEN files ELSE <<>>,
               i |-> 1, all_methods |-> <<>>]
    /\ UNCHANGED <<table, now, last, everProc, changed, enricherVars,
                   workerVars, scan, bal, conn, usage,
                   deps, drv>>

\* One file of the walk.
ExtractFile ==
    /\ ext.pc = "walk"
    /\ LET file == ext.files[ext.i]
       IN ext' = [ext EXCEPT
                    !.all_methods = IF IsJavaSource(file)
                                      THEN Extend(@, ParseFile(file)) ELSE @,
                    !.i = @ + 1,
                    !.pc = IF ext.i = Len(ext.files) THEN "done" ELSE "walk"]
    /\ UNCHANGED <<table, now, last, everProc, changed, enricherVars,
                   workerVars, scan, bal, conn, usage,
                   deps, drv>>

NextExtract ==
    \/ /\ ext.pc = "idle"
       /\ \E exists \in BOOLEAN, files \in Walks : ExtractStart(exists, files)
    \/ ExtractFile

SpecExtract == Init /\ [][NextExtract]_vars

\* C12: any two distinct declarations of one scan, in one file or in two,
\* have distinct final signatures and distinct identities.
C12_CollisionFree ==
    \A j, k \in DOMAIN ext.all_methods :
        j # k => /\ ext.all_methods[j].final_sig # ext.all_methods[k].final_sig
                 /\ ext.all_methods[j].id # ext.all_methods[k].id

\* Three declarations with one base key in a file, a declaration under the
\* "Unknown" path, and records of two files.
C12_Witness ==
    /\ ext.pc = "done"
    /\ \E f \in DOMAIN ext.files :
          /\ Len(ext.files[f].decls) = 3
          /\ \A k \in 1..3 : ext.files[f].decls[k] = ext.files[f].decls[1]
          /\ ext.files[f].decls[1].class_path = <<"Unknown">>
    /\ \E j, k \in DOMAIN ext.all_methods :
          ext.all_methods[j].source_path # ext.all_methods[k].source_path

\* How many of the declarations before position k have the base key of k.
Earlier(rel_path, decls, k) ==
    Cardinality({j \in 1..(k - 1) :
                    BaseSig(rel_path, decls[j]) = BaseSig(rel_path, decls[k])})

\* C13: the identity at each position is fixed by the relative path and the
\* ordered declarations: the first declaration with a base key gets the base
\* key, the k-th (k >= 2) gets the base key followed by #sub_(k-1).
C13_IdentityIsDeterministic ==
    \A f \in 1..(ext.i - 1) :
        LET file == ext.files[f]
            recs == ParseFile(file)
        IN IsJavaSource(file) /\ file.kind = "ok" =>
             /\ Len(recs) = Len(file.decls)
             /\ \A k \in DOMAIN recs :
                   LET base == BaseSig(file.rel_path, file.decls[k])
                       n == Earlier(file.rel_path, file.decls, k)
                   IN /\ recs[k].final_sig =
                            IF n = 0 THEN base
                            ELSE base \o <<"#", "sub_", ToString(n)>>
                      /\ recs[k].id = MethodId(recs[k].final_sig)
                      /\ \E j \in DOMAIN ext.all_methods :
                            ext.all_methods[j] = recs[k]

\* A file whose third declaration repeats the base key of the first two.
C13_Witness ==
    /\ ext.pc = "done"
    /\ \E j \in DOMAIN ext.all_methods :
          LET sig == ext.all_methods[j].final_sig
          IN Len(sig) > 3 /\ SubSeq(sig, Len(sig) - 2, Len(sig)) = <<"#", "sub_", "2">>

\* The records the walk should have gathered from its first n files.
RECURSIVE Gathered(_, _)
Gathered(files, n) ==
    IF n = 0 THEN <<>>
    ELSE Gathered(files, n - 1)
         \o (IF files[n].kind = "ok"
               THEN ExtractMethodsFromTree(files[n].rel_path, files[n].decls)
               ELSE <<>>)

\* C17: a file that fails to read or parse adds no record and the walk goes
\* on, so the result is the concatenation of the records of the files that
\* parsed; a missing root directory gives the empty list.
C17_FailedFileAddsNothing ==
    /\ ext.pc \in {"walk", "done"} =>
          ext.all_methods = Gathered(ext.files, ext.i - 1)
    /\ ext.pc = "done" =>
          /\ ext.i = Len(ext.files) + 1
          /\ ~ext.exists => ext.all_methods = <<>>

\* A walk whose first file failed to parse and whose second file gave records.
C17_Witness ==
    /\ ext.pc = "done"
    /\ Len(ext.files) = 2
    /\ ext.files[1].kind \in {"syntax", "error"}
    /\ ext.files[2].kind = "ok"
    /\ ext.all_methods # <<>>

---------------------------------------------------------------------------
(* update_ai_enrichment from the threads of _process_list: one connection *)

\* Most cost units a record gathers in this model.
MaxCost == 2

\* Token counts of one external call; its cost is one unit per token.
Tokens == {0, 1}

\* The arguments of one call; the payload is the analysis of body `code`.
EnrichCalls ==
    {[id |-> id, code |-> code, tokens |-> n, cost |-> n] :
        id \in Ids, code \in Codes, n \in Tokens}

\* The calls of the threads of one batch: distinct records.
CallSets ==
    {S \in SUBSET EnrichCalls :
        /\ S # {}
        /\ \A c, d \in S : c.id = d.id => c = d}

ApplyCall(tbl, c) ==
    UpdateAiEnrichment(tbl, c.id, SummaryOf(c.code), MetaOf(NameOf(c.id), c.code),
                       c.tokens, c.cost)

\* Variant: every statement starts from the committed table.
TxnViewCommitted(c, tbl) == tbl

\* What a statement on the connection sees: the open transaction of the
\* connection, begun by the first execute after a commit.
TxnView(c, tbl) == IF c.open THEN c.view ELSE tbl

\* The threads are handed their calls.
ConnStart(calls) ==
    /\ \A id \in DOMAIN conn.pc : conn.pc[id] = "done"
    /\ \A c \in calls : \A r \in table :
          r.id = c.id => r.total_cost + c.cost <= MaxCost
    /\ conn' = [open |-> FALSE, view |-> {}, calls |-> calls,
                pc |-> [id \in {c.id : c \in calls} |-> "execute"],
                base |-> table]
    /\ UNCHANGED <<table, now, last, everProc, changed, enricherVars,
                   workerVars, scan, ext, bal, usage,
                   deps, drv>>

\* cur.execute(query, ...) of the call for id.
ConnExecute(id) ==
    /\ id \in DOMAIN conn.pc
    /\ conn.pc[id] = "execute"
    /\ LET c == CHOOSE x \in conn.calls : x.id = id
       IN conn' = [conn EXCEPT !.open = TRUE,
                               !.view = ApplyCall(TxnView(conn, table), c),
                               !.pc[id] = "commit"]
    /\ UNCHANGED <<table, now, last, everProc, changed, enricherVars,
                   workerVars, scan, ext, bal, usage,
                   deps, drv>>

\* self.conn.commit() of the call for id: the transaction of the connection
\* is committed, whichever threads wrote in it.
ConnCommit(id) ==
    /\ id \in DOMAIN conn.pc
    /\ conn.pc[id] = "commit"
    /\ table' = TxnView(conn, table)
    /\ conn' = [conn EXCEPT !.open = FALSE, !.view = {}, !.pc[id] = "done"]
    /\ UNCHANGED <<now, last, everProc, changed, enricherVars, workerVars,
                   scan, ext, bal, usage,
                   deps, drv>>

\* A scan batch between two batches of calls.
ConnUpsert(methods) ==
    /\ \A id \in DOMAIN conn.pc : conn.pc[id] = "done"
    /\ Upsert(methods)
    /\ conn' = NoConn
    /\ UNCHANGED <<last, enricherVars, workerVars, scan, ext, bal, usage,
                   deps, drv>>

NextConn ==
    \/ /\ \A id \in DOMAIN conn.pc : conn.pc[id] = "done"
       /\ \/ \E methods \in Batches : ConnUpsert(methods)
          \/ \E calls \in CallSets : ConnStart(calls)
    \/ \E id \in Ids : ConnExecute(id)
    \/ \E id \in Ids : ConnCommit(id)

SpecConn == Init /\ [][NextConn]_vars

\* The calls of S in every order.
Orders(S) ==
    {q \in [1..Cardinality(S) -> S] : \A j, k \in DOMAIN q : q[j] = q[k] => j = k}

RECURSIVE ApplySeq(_, _)
ApplySeq(tbl, q) ==
    IF q = <<>> THEN tbl ELSE ApplySeq(ApplyCall(tbl, Head(q)), Tail(q))

ConnAllDone ==
    /\ conn.calls # {}
    /\ \A id \in DOMAIN conn.pc : conn.pc[id] = "done"

\* C14: update_ai_enrichment sets the record's status to ai_processed, stores
\* the payload and adds the cost to total_cost; when concurrent calls for
\* distinct records have all returned, the store is what the calls give one
\* after another, in any order.
C14_DisjointCallsCommute ==
    ConnAllDone =>
        /\ ~conn.open
        /\ \A q \in Orders(conn.calls) : table = ApplySeq(conn.base, q)
        /\ IdsOf(table) = IdsOf(conn.base)
        /\ \A b \in conn.base :
              LET r == RowOf(table, b.id)
              IN IF \E c \in conn.calls : c.id = b.id
                   THEN LET c == CHOOSE c \in conn.calls : c.id = b.id
                        IN /\ r.status = "ai_processed"
                           /\ r.ai_summary = SummaryOf(c.code)
                           /\ r.metadata_json = MetaOf(NameOf(b.id), c.code)
                           /\ r.summary_tokens = c.tokens
                           /\ r.total_cost = b.total_cost + c.cost
                           /\ r.vector_status = b.vector_status
                   ELSE r = b

\* Two calls with costs, both executed before either commit, on records that
\* already carried a cost.
C14_Witness ==
    /\ ConnAllDone
    /\ Cardinality(conn.calls) = 2
    /\ \A c \in conn.calls : c.cost = 1
    /\ \A id \in Ids : HasRow(conn.base, id) /\ RowOf(conn.base, id).total_cost = 1
                        /\ RowOf(table, id).total_cost = 2

---------------------------------------------------------------------------
(* The vector-sync marks with usage: update_vector_sync_status and         *)
(* bulk_update_vector_sync given token counts and costs                    *)

\* usage after the rows of data have been given their tokens and costs.
Passed(data) ==
    [id \in Ids |->
        IF HasRow(table, id) /\ \E v \in data : v.id = id
          THEN LET v == CHOOSE v \in data : v.id = id
               IN [tokens |-> usage[id].tokens + v.tokens,
                   cost |-> usage[id].cost + v.cost]
          ELSE usage[id]]

\* update_vector_sync_status(id, n, cost of n tokens)
UsageSynced(id, n) ==
    /\ usage[id].tokens + n <= MaxCost
    /\ MarkSynced(id, UsageData(id, n).tokens, UsageData(id, n).cost)
    /\ usage' = Passed({UsageData(id, n)})
    /\ last' = [NoCall EXCEPT !.op = "synced", !.ids = {id},
                              !.prior = Prior(table, {id})]
    /\ UNCHANGED <<enricherVars, workerVars, scan, ext, bal, conn,
                   deps, drv>>

\* bulk_update_vector_sync(update_data); raised: the statement failed and the
\* except clause rolled it back.
UsageBulkSynced(data, raised) ==
    /\ \A v \in data : usage[v.id].tokens + v.tokens <= MaxCost
    /\ BulkMarkSynced(data, raised)
    /\ usage' = IF raised THEN usage ELSE Passed(data)
    /\ last' = [NoCall EXCEPT !.op = IF raised THEN "bulk_failed" ELSE "bulk_synced",
                              !.ids = {v.id : v \in data},
                              !.prior = Prior(table, {v.id : v \in data})]
    /\ UNCHANGED <<enricherVars, workerVars, scan, ext, bal, conn,
                   deps, drv>>

\* update_data of a bulk mark: one tuple per id.
UsageBatches ==
    {{UsageData(id, f[id]) : id \in ids} : 
        f \in [Ids -> Tokens], ids \in SUBSET Ids}

NextUsage ==
    \/ \E methods \in Batches : StoreUpsert(methods)
    \/ \E id \in Ids, n \in Tokens : UsageSynced(id, n)
    \/ \E data \in UsageBatches, raised \in BOOLEAN : UsageBulkSynced(data, raised)

SpecUsage == Init /\ [][NextUsage]_vars

\* C15: a vector-sync mark sets vector_status to synced for each given
\* identity, and after any sequence of marks a record's vector_tokens is the
\* sum of the token counts passed for it and its total_cost the sum of the
\* costs passed.
C15_MarksAccumulateUsage ==
    /\ last.op \in {"synced", "bulk_synced"} =>
          \A r \in table : r.id \in last.ids => r.vector_status = "synced"
    /\ \A r \in table :
          /\ r.vector_tokens = usage[r.id].tokens
          /\ r.total_cost = usage[r.id].cost

---------------------------------------------------------------------------
(* One enrichment batch at a time, with analysis costs *)

\* A scan between two enrichment batches.
EnrichScan(methods) ==
    /\ eRows = {}
    /\ ScanUpsert(methods)

\* _process_method for a fetched row; the analysis used n tokens.
EnrichMethod(row, ok, n) ==
    /\ \A r \in table : r.id = row.id => r.total_cost + n <= MaxCost
    /\ ProcessMethod(row, ok, n, n)

NextEnrich ==
    \/ \E methods \in Batches : EnrichScan(methods)
    \/ \E limit \in Limits : ProcessBatches(limit)
    \/ \E row \in eRows, ok \in BOOLEAN, n \in Tokens : EnrichMethod(row, ok, n)

SpecEnrich == Init /\ [][NextEnrich]_vars

\* The records of the running batch: drained or still to drain.
BatchOf(rows, ok, bad) == {r.id : r \in rows} \cup ok \cup bad

---------------------------------------------------------------------------
(* The vectorization pass: what leads to `synced` *)

\* The ids whose vector_status the step has turned to synced.
NewlySynced ==
    {r.id : r \in {x \in table' :
        /\ x.vector_status = "synced"
        /\ \A y \in table : y.id = x.id => y.vector_status # "synced"}}

\* C19: in a vectorization pass a record becomes synced only when its
\* embedding succeeded and the index accepted the batch in that pass: a record
\* whose embedding failed stays pending, and a failed index upsert marks none.
C19_SyncedOnlyAfterIndexing ==
    [][/\ NewlySynced \subseteq vIndexed
       /\ NewlySynced \cap vFailed = {}
       /\ \A id \in vFailed' : HasRow(table', id) =>
             RowOf(table', id).vector_status = "pending"
       /\ (vPc = "index" /\ vPc' # "index" /\ vIndexed' = {}) =>
             table' = table /\ vPc' = "idle" /\ vUsage' = {}]_vars

\* A pass of two rows has ended: the embedding of one failed and it is still
\* pending, the other was indexed and marked.
C19_Witness ==
    /\ vPc = "idle"
    /\ \E a \in vFailed, b \in vIndexed :
          /\ HasRow(table, a) /\ RowOf(table, a).vector_status = "pending"
          /\ HasRow(table, b) /\ RowOf(table, b).vector_status = "synced"

---------------------------------------------------------------------------
(* JavaExtractor._get_method_body: brace balancing *)

\* Most lines of a file in this model.
MaxLines == 3

\* A line of source, one string per character; x is any character that is
\* not a brace.
Chars == {"{", "}", "x"}
SourceLines == SeqsUpTo(Chars, 2)

Files == SeqsUpTo(SourceLines, MaxLines)

\* line.count(ch)
RECURSIVE Count(_, _)
Count(line, ch) ==
    IF line = <<>> THEN 0
    ELSE (IF Head(line) = ch THEN 1 ELSE 0) + Count(Tail(line), ch)

\* "\n".join(body)
RECURSIVE Join(_)
Join(body) ==
    IF body = <<>> THEN <<>>
    ELSE IF Len(body) = 1 THEN body[1]
    ELSE body[1] \o <<"\n">> \o Join(Tail(body))

\* Variant: the stop condition without `started`.
StopsWithoutStarted(started, brace_count) == brace_count <= 0

\* if started and brace_count <= 0: break
Stops(started, brace_count) == started /\ brace_count <= 0

\* _get_method_body(lines, node.position.line - 1) is called: start_line is
\* the line of a declaration of the file.
BodyStart(lines, start_line) ==
    /\ bal.pc = "idle"
    /\ start_line < Len(lines)
    /\ lines[start_line + 1] # <<>>
    /\ bal' = [NoBody EXCEPT !.pc = "loop", !.lines = lines,
                             !.start_line = start_line, !.i = start_line + 1]
    /\ UNCHANGED <<table, now, last, everProc, changed, enricherVars,
                   workerVars, scan, ext, conn, usage,
                   deps, drv>>

\* One turn of `for line in lines[start_line:]`; after the last turn, or the
\* break, the return.
BodyStep ==
    /\ bal.pc = "loop"
    /\ LET line == bal.lines[bal.i]
           body == Append(bal.body, line)
           brace_count == bal.brace_count + Count(line, "{") - Count(line, "}")
           started == bal.started \/ Count(line, "{") > 0
           over == Stops(started, brace_count) \/ bal.i = Len(bal.lines)
       IN bal' = [bal EXCEPT !.body = body, !.brace_count = brace_count,
                             !.started = started, !.i = @ + 1,
                             !.pc = IF over THEN "done" ELSE "loop",
                             !.text = IF over THEN Join(body) ELSE @,
                             !.line_count = IF over THEN Len(body) ELSE @]
    /\ UNCHANGED <<table, now, last, everProc, changed, enricherVars,
                   workerVars, scan, ext, conn, usage,
                   deps, drv>>

NextBody ==
    \/ /\ bal.pc = "idle"
       /\ \E lines \in Files, start_line \in 0..1 : BodyStart(lines, start_line)
    \/ BodyStep

SpecBody == Init /\ [][NextBody]_vars

\* lines[start_line:]
Rest == SubSeq(bal.lines, bal.start_line + 1, Len(bal.lines))

\* The running count of '{' minus '}' over the first n lines of ls.
RECURSIVE Balance(_, _)
Balance(ls, n) ==
    IF n = 0 THEN 0
    ELSE Balance(ls, n - 1) + Count(ls[n], "{") - Count(ls[n], "}")

\* The first n lines of ls hold an opening brace and balance to zero or below.
Closed(ls, n) ==
    /\ \E j \in 1..n : Count(ls[j], "{") > 0
    /\ Balance(ls, n) <= 0

\* The result is the first n lines of lines[start_line:].
Returns(n) ==
    /\ bal.text = Join(SubSeq(Rest, 1, n))
    /\ bal.line_count = n

\* The scenario: a first line with one opening brace whose balance first
\* reaches zero on the third line gives exactly those three lines.
ThreeLines ==
    (/\ Len(Rest) >= 3
     /\ Count(Rest[1], "{") = 1 /\ Count(Rest[1], "}") = 0
     /\ Balance(Rest, 2) > 0
     /\ Balance(Rest, 3) = 0) => Returns(3)

\* C20 as stated: _get_method_body returns the shortest prefix of
\* lines[start_line:] that holds an opening brace and balances to zero or
\* below, with its number of lines.
C20_ShortestClosedPrefix ==
    bal.pc = "done" =>
        /\ \E n \in 1..Len(Rest) :
              /\ Closed(Rest, n)
              /\ \A m \in 1..(n - 1) : ~Closed(Rest, m)
              /\ Returns(n)
        /\ ThreeLines

\* C20, amended: _get_method_body returns the shortest prefix of
\* lines[start_line:] that holds an opening brace and balances to zero or
\* below, or all of lines[start_line:] when no prefix does, with its number of
\* lines; in the three-line scenario it returns those three lines.
C20_ShortestClosedPrefixOrAll ==
    bal.pc = "done" =>
        /\ IF \E n \in 1..Len(Rest) : Closed(Rest, n)
             THEN \E n \in 1..Len(Rest) :
                     /\ Closed(Rest, n)
                     /\ \A m \in 1..(n - 1) : ~Closed(Rest, m)
                     /\ Returns(n)
             ELSE Returns(Len(Rest))
        /\ ThreeLines

\* The scenario itself: `x{`, `x`, `}` from the start of the file.
C20_Witness ==
    /\ bal.pc = "done"
    /\ bal.lines = <<<<"x", "{">>, <<"x">>, <<"}">>>>
    /\ bal.start_line = 0
    /\ bal.line_count = 3
    /\ bal.text = <<"x", "{", "\n", "x", "\n", "}">>

---------------------------------------------------------------------------
(* upsert_methods called with any dicts: the origin columns *)

\* The dicts a caller can pass for an identity: those of the extractor, and
\* the same with another m['source'].
MovedMethods == Methods \cup {[m EXCEPT !.source = <<"c">>] : m \in Methods}

MovedBatches ==
    {b \in SUBSET MovedMethods :
        /\ b # {}
        /\ Cardinality(b) <= 2
        /\ \A m1, m2 \in b : m1.id = m2.id => m1 = m2}

NextOrigin ==
    \/ \E methods \in MovedBatches : StoreUpsert(methods)
    \/ Tick

SpecOrigin == Init /\ [][NextOrigin]_vars

---------------------------------------------------------------------------
(* JavaExtractor._analyze_dependencies and the cut of its lists *)

\* Most imports of a file in this model.
MaxImports == 3

\* The cut internal[:10] / external[:10] (10 in the source), scaled to the
\* import lists of this model.
DepsCap == 2

\* tree.package.name, one string per character.
Packages == {<<"c", ".", "a">>, <<"c", ".", "a", ".", "x">>, <<"c">>}

\* imp.path of an import, one string per character.
Imports ==
    {<<"c", ".", "a", ".", "F">>, <<"c", ".", "a", "b", ".", "F">>,
     <<"j", ".", "u", ".", "L">>}

ImportLists == SeqsUpTo(Imports, MaxImports)

\* s.split('.')
RECURSIVE Split(_)
Split(s) ==
    IF \A k \in DOMAIN s : s[k] # "."
      THEN <<s>>
      ELSE LET k == CHOOSE k \in DOMAIN s :
                       s[k] = "." /\ \A j \in 1..(k - 1) : s[j] # "."
           IN <<SubSeq(s, 1, k - 1)>> \o Split(SubSeq(s, k + 1, Len(s)))

\* ".".join(parts) / ", ".join(parts)
RECURSIVE JoinWith(_, _)
JoinWith(parts, sep) ==
    IF parts = <<>> THEN <<>>
    ELSE IF Len(parts) = 1 THEN parts[1]
    ELSE parts[1] \o sep \o JoinWith(Tail(parts), sep)

\* parts[:n]
Cut(parts, n) == SubSeq(parts, 1, Min(n, Len(parts)))

\* prefix = ".".join(parts[:2]) if len(parts) > 1 else parts[0]
DepsPrefix(package_name) ==
    LET parts == Split(package_name)
    IN IF Len(parts) > 1 THEN JoinWith(Cut(parts, 2), <<".">>) ELSE parts[1]

\* _analyze_dependencies(package_name, all_imports), then the cut and the
\* join of _extract_methods_from_tree.
AnalyzeDependencies(package_name, all_imports) ==
    /\ deps.pc = "idle"
    /\ LET prefix == DepsPrefix(package_name)
           IsInternal(i) == StartsWith(i, prefix)
           IsExternal(i) == ~StartsWith(i, prefix)
           \* [i for i in all_imports if i.startswith(prefix)], and if not
           internal == SelectSeq(all_imports, IsInternal)
           external == SelectSeq(all_imports, IsExternal)
       IN deps' = [pc |-> "done", package_name |-> package_name,
                   all_imports |-> all_imports,
                   internal |-> internal, external |-> external,
                   internal_deps |-> JoinWith(Cut(internal, DepsCap), <<",", " ">>),
                   external_libs |-> JoinWith(Cut(external, DepsCap), <<",", " ">>)]
    /\ UNCHANGED <<table, now, last, everProc, changed, enricherVars,
                   workerVars, scan, ext, bal, conn, usage, drv>>

NextDeps ==
    /\ deps.pc = "idle"
    /\ \E package_name \in Packages, all_imports \in ImportLists :
          AnalyzeDependencies(package_name, all_imports)

SpecDeps == Init /\ [][NextDeps]_vars

\* The first two dot-separated segments of a dotted name.
TwoSegments(name) == Cut(Split(name), 2)

\* C22: an import is internal exactly when its first two segments are the
\* first two segments of the package, external otherwise; the two lists hold
\* every import once, in order, and each is cut to its first entries before
\* it is stored.
C22_DependencyClassification ==
    deps.pc = "done" =>
        LET SameSegments(i) == TwoSegments(i) = TwoSegments(deps.package_name)
            OtherSegments(i) == TwoSegments(i) # TwoSegments(deps.package_name)
        IN /\ deps.internal = SelectSeq(deps.all_imports, SameSegments)
           /\ deps.external = SelectSeq(deps.all_imports, OtherSegments)
           /\ Len(deps.internal) + Len(deps.external) = Len(deps.all_imports)
           /\ deps.internal_deps =
                 JoinWith(Cut(deps.internal, DepsCap), <<",", " ">>)
           /\ deps.external_libs =
                 JoinWith(Cut(deps.external, DepsCap), <<",", " ">>)

---------------------------------------------------------------------------
(* Every public operation of the store, update_vector_sync_status_batch    *)
(* with any status among them                                              *)

\* The strings a caller passes as `status`.
BatchStatuses == {"synced", "pending", "failed"}

\* UPDATE java_methods SET vector_status = %s WHERE id = ANY(%s)
UpdateVectorSyncStatusBatch(tbl, ids, status) ==
    {IF r.id \in ids THEN [r EXCEPT !.vector_status = status] ELSE r : r \in tbl}

\* update_vector_sync_status_batch(method_ids, status); raised: the statement
\* failed and the except clause rolled it back.
StoreStatusBatch(ids, status, raised) ==
    /\ table' = IF ids = {} \/ raised THEN table
                ELSE UpdateVectorSyncStatusBatch(table, ids, status)
    /\ last' = [NoCall EXCEPT !.op = "status_batch", !.ids = ids,
                              !.prior = Prior(table, ids)]
    /\ UNCHANGED <<now, everProc, changed, enricherVars, workerVars, auxVars>>

NextStatus ==
    \/ NextStore
    \/ \E ids \in SUBSET Ids, status \in BatchStatuses, raised \in BOOLEAN :
          StoreStatusBatch(ids, status, raised)

SpecStatus == Init /\ [][NextStatus]_vars

\* C23: in every state the public operations of the store reach, each record
\* has status new, updated or ai_processed and vector_status pending or synced.
C23_StatusDomains ==
    \A r \in table :
        /\ r.status \in {"new", "updated", "ai_processed"}
        /\ r.vector_status \in {"pending", "synced"}

\* The row of id keeps the columns of the enrichment axis.
KeepsEnrichment(r, r2) ==
    /\ r2.status = r.status
    /\ r2.content_hash = r.content_hash
    /\ r2.ai_summary = r.ai_summary
    /\ r2.metadata_json = r.metadata_json
    /\ r2.summary_tokens = r.summary_tokens

\* The row of id keeps the columns of the vector axis and of the scan.
KeepsVector(r, r2) ==
    /\ r2.vector_status = r.vector_status
    /\ r2.content_hash = r.content_hash
    /\ r2.last_seen_at = r.last_seen_at

\* C24: update_ai_enrichment leaves vector_status, content_hash and
\* last_seen_at of its record as they were, the vector-sync marks leave status,
\* content_hash and the enrichment payload as they were, and both leave every
\* other record as it was.
C24_AxesIndependent ==
    [][last'.op \in {"enrich", "synced", "bulk_synced", "status_batch"} =>
          /\ IdsOf(table') = IdsOf(table)
          /\ \A r \in table :
                LET r2 == RowOf(table', r.id)
                IN IF r.id \notin last'.ids THEN r2 = r
                   ELSE IF last'.op = "enrich" THEN KeepsVector(r, r2)
                   ELSE KeepsEnrichment(r, r2)]_vars

\* An enrichment mark has been written on a record that was synced, and a
\* vector-sync mark can follow on the other record, which is enriched.
C24_Witness ==
    /\ last.op = "enrich"
    /\ \E r \in last.prior :
          /\ r.vector_status = "synced"
          /\ r.status # "ai_processed"
          /\ RowOf(table, r.id).status = "ai_processed"
          /\ RowOf(table, r.id).vector_status = "synced"
    /\ \E r \in table : r.id \notin last.ids /\ r.status = "ai_processed"

---------------------------------------------------------------------------
(* Rescans of records that carry a payload and usage counters *)

\* update_ai_enrichment with the analysis of the stored body of id, which used
\* n tokens at a cost of n.
PayloadEnrich(id, n) ==
    /\ HasRow(table, id)
    /\ RowOf(table, id).total_cost + n <= MaxCost
    /\ MarkEnriched(id, SummaryOf(RowOf(table, id).method_code),
                    MetaOf(NameOf(id), RowOf(table, id).method_code), n, n)
    /\ last' = [NoCall EXCEPT !.op = "enrich", !.ids = {id},
                              !.prior = Prior(table, {id})]
    /\ UNCHANGED <<enricherVars, workerVars, auxVars>>

\* update_vector_sync_status for an embedding of n tokens at a cost of n.
PayloadSynced(id, n) ==
    /\ \A r \in table : r.id = id => r.total_cost + n <= MaxCost
    /\ MarkSynced(id, UsageData(id, n).tokens, UsageData(id, n).cost)
    /\ last' = [NoCall EXCEPT !.op = "synced", !.ids = {id},
                              !.prior = Prior(table, {id})]
    /\ UNCHANGED <<enricherVars, workerVars, auxVars>>

NextPayload ==
    \/ \E methods \in Batches : StoreUpsert(methods)
    \/ \E id \in Ids, n \in Tokens : PayloadEnrich(id, n)
    \/ \E id \in Ids, n \in Tokens : PayloadSynced(id, n)

SpecPayload == Init /\ [][NextPayload]_vars

\* C25: upsert_methods of a stored identity leaves ai_summary, metadata_json,
\* the token counts and total_cost of its record as they were, whether or not
\* the content hash changed.
C25_UpsertKeepsPayload ==
    last.op = "upsert" =>
        \A r \in last.prior :
            /\ HasRow(table, r.id)
            /\ RowOf(table, r.id).ai_summary = r.ai_summary
            /\ RowOf(table, r.id).metadata_json = r.metadata_json
            /\ RowOf(table, r.id).summary_tokens = r.summary_tokens
            /\ RowOf(table, r.id).vector_tokens = r.vector_tokens
            /\ RowOf(table, r.id).total_cost = r.total_cost

\* A record that was enriched and vectorized at a cost has been re-observed
\* with other content: it is 'updated' and carries the former payload.
C25_Witness ==
    /\ last.op = "upsert"
    /\ \E r \in last.prior :
          /\ r.status = "ai_processed"
          /\ r.ai_summary # "null"
          /\ r.summary_tokens > 0
          /\ r.vector_tokens > 0
          /\ r.total_cost > 1
          /\ RowOf(table, r.id).status = "updated"
          /\ RowOf(table, r.id).content_hash # r.content_hash
          /\ RowOf(table, r.id).ai_summary = r.ai_summary

---------------------------------------------------------------------------
(* The __main__ loops: process_batches and sync repeated until they return 0 *)

\* batch_size of the loops (100 in both scripts).
DriverBatch == 1

driveIdle == <<scan, ext, bal, conn, usage, deps>>

\* Variant: the loop goes on only after a pass of more than one record.
ContinuesOffByOne(n) == n > 1

\* `while methods > 0` / `while itemsProcessed > 0`
Continues(n) == n > 0

\* What the loop does with the value a pass returned.
AfterPass(n) == IF Continues(n) THEN "run" ELSE "done"

\* run_extraction_pipeline delivers a batch while neither loop has started.
DriveScan(methods) ==
    /\ drv.enrich = "off"
    /\ drv.sync = "off"
    /\ ScanUpsert(methods)

\* The enrichment script is started; the analysis calls for the records in
\* failing fail on every attempt.
DriveEnrichStart(failing) ==
    /\ drv.enrich = "off"
    /\ drv' = [drv EXCEPT !.enrich = "run", !.failing = failing]
    /\ UNCHANGED <<table, now, last, everProc, changed, enricherVars,
                   workerVars, driveIdle>>

\* process_batches(batch_size): the fetch; an empty result returns 0.
DriveProcessBatches ==
    /\ drv.enrich = "run"
    /\ \E res \in GetMethodsToAnalyze(table, DriverBatch) :
          /\ eRows' = {res[i] : i \in DOMAIN res}
          /\ drv' = IF Len(res) = 0
                      THEN [drv EXCEPT !.enrich = AfterPass(0)]
                      ELSE [drv EXCEPT !.enrich = "pool", !.en = Len(res)]
    /\ eOk' = {}
    /\ eBad' = {}
    /\ UNCHANGED <<table, now, last, everProc, changed, workerVars, driveIdle>>

\* _process_method(row) of the pass; after the last one process_batches
\* returns len(methods).
DriveProcessMethod(row) ==
    /\ drv.enrich = "pool"
    /\ row \in eRows
    /\ LET local == IsGetterSetter(row.method_name, row.method_code)
           ok == row.id \notin drv.failing
       IN /\ eRows' = Remaining(eRows, row, ~(ok \/ local))
          /\ IF local \/ ok
               THEN /\ MarkEnriched(row.id, SummaryOf(row.method_code),
                                    MetaOf(row.method_name, row.method_code), 0, 0)
                    /\ eOk' = eOk \cup {row.id}
                    /\ eBad' = eBad
               ELSE /\ UNCHANGED <<table, now, everProc, changed>>
                    /\ eOk' = eOk
                    /\ eBad' = eBad \cup {row.id}
    /\ drv' = IF eRows' = {} THEN [drv EXCEPT !.enrich = AfterPass(drv.en)] ELSE drv
    /\ UNCHANGED <<last, workerVars, driveIdle>>

\* The vectorization script is started.
DriveSyncStart ==
    /\ drv.sync = "off"
    /\ drv' = [drv EXCEPT !.sync = "run"]
    /\ UNCHANGED <<table, now, last, everProc, changed, enricherVars,
                   workerVars, driveIdle>>

\* sync(): the fetch; an empty result returns 0.
DriveSync ==
    /\ drv.sync = "run"
    /\ \E rows \in GetMethodsToVectorize(table, DriverBatch) :
          /\ vRows' = rows
          /\ vPc' = IF rows = {} THEN "idle" ELSE "embed"
          /\ drv' = IF rows = {}
                      THEN [drv EXCEPT !.sync = AfterPass(0)]
                      ELSE [drv EXCEPT !.sync = "pool", !.sn = Cardinality(rows)]
    /\ vUsage' = {}
    /\ vFailed' = {}
    /\ vIndexed' = {}
    /\ UNCHANGED <<table, now, last, everProc, changed, enricherVars, driveIdle>>

\* _process_single_row(row): the embedding call returns.
DriveEmbed(row) ==
    /\ drv.sync = "pool"
    /\ vPc = "embed"
    /\ row \in vRows
    /\ vRows' = vRows \ {row}
    /\ vUsage' = vUsage \cup {UsageData(row.id, 0)}
    /\ vPc' = IF vRows' # {} THEN "embed" ELSE "index"
    /\ UNCHANGED <<table, now, last, everProc, changed, enricherVars, vFailed,
                   vIndexed, driveIdle, drv>>

\* pinecone.upsert_vectors accepts the vectors.
DriveIndex ==
    /\ drv.sync = "pool"
    /\ vPc = "index"
    /\ vPc' = AfterIndex(TRUE)
    /\ vIndexed' = {v.id : v \in vUsage}
    /\ UNCHANGED <<table, now, last, everProc, changed, enricherVars, vRows,
                   vUsage, vFailed, driveIdle, drv>>

\* bulk_update_vector_sync(usage_tracking), then sync returns len(rows).
DriveMark ==
    /\ drv.sync = "pool"
    /\ vPc = "mark"
    /\ BulkMarkSynced(vUsage, FALSE)
    /\ vPc' = "idle"
    /\ vUsage' = {}
    /\ drv' = [drv EXCEPT !.sync = AfterPass(drv.sn)]
    /\ UNCHANGED <<last, enricherVars, vRows, vFailed, vIndexed, driveIdle>>

(* The enrichment loop with analysis calls that may fail *)

NextRetry ==
    \/ \E b \in Batches : DriveScan(b)
    \/ \E failing \in SUBSET Ids : DriveEnrichStart(failing)
    \/ DriveProcessBatches
    \/ \E row \in eRows : DriveProcessMethod(row)

\* The script runs on: a pass that can be started is started, and a submitted
\* unit is run by the pool.
SpecRetry ==
    /\ Init
    /\ [][NextRetry]_vars
    /\ WF_vars(DriveProcessBatches)
    /\ WF_vars(\E row \in eRows : DriveProcessMethod(row))

\* C26: once the loop runs, a record that awaits analysis and whose own
\* analysis call succeeds is eventually enriched, whatever the calls of the
\* other records do.
C26_PendingEventuallyEnriched ==
    \A id \in Ids :
        (/\ drv.enrich \in {"run", "pool"}
         /\ id \notin drv.failing
         /\ HasRow(table, id)
         /\ RowOf(table, id).status \in {"new", "updated"})
        ~> (HasRow(table, id) /\ RowOf(table, id).status = "ai_processed")

(* Both loops, after the scans, with every external call succeeding *)

NextDrive ==
    \/ \E b \in Batches : DriveScan(b)
    \/ DriveEnrichStart({})
    \/ DriveProcessBatches
    \/ \E row \in eRows : DriveProcessMethod(row)
    \/ DriveSyncStart
    \/ DriveSync
    \/ \E row \in vRows : DriveEmbed(row)
    \/ DriveIndex
    \/ DriveMark

SpecDrive ==
    /\ Init
    /\ [][NextDrive]_vars
    /\ WF_vars(DriveProcessBatches)
    /\ WF_vars(\E row \in eRows : DriveProcessMethod(row))
    /\ WF_vars(DriveSync)
    /\ WF_vars(\E row \in vRows : DriveEmbed(row))
    /\ WF_vars(DriveIndex)
    /\ WF_vars(DriveMark)

\* C27: a started loop ends; once the enrichment loop has ended no record
\* awaits analysis, and when the vectorization loop ends every enriched record
\* that is not flagged boilerplate is synced.
C27_LoopsTerminate ==
    /\ (drv.enrich \in {"run", "pool"}) ~> (drv.enrich = "done")
    /\ (drv.sync \in {"run", "pool"}) ~> (drv.sync = "done")
    /\ [](drv.enrich = "done" => PendingAnalysis = {})
    /\ [][drv.sync # "done" /\ drv'.sync = "done" =>
             \A r \in table' :
                 (r.status = "ai_processed" /\ ~r.metadata_json.is_getter_setter)
                     => r.vector_status = "synced"]_vars

\* Both loops have ended after more than one pass each: two records went
\* through analysis and indexing.
C27_Witness ==
    /\ drv.enrich = "done"
    /\ drv.sync = "done"
    /\ \A id \in Ids :
          /\ HasRow(table, id)
          /\ RowOf(table, id).status = "ai_processed"
          /\ RowOf(table, id).vector_status = "synced"

====
